---- MODULE Spec2Model ----
(***************************************************************************)
(* Model of src/app.py: the SQLServerConnection manager (connect,          *)
(* disconnect, execute_stored_procedure) over a pyodbc-like driver, and    *)
(* the Streamlit shell around it (render_sidebar,                          *)
(* render_procedure_interface) with its session state.                     *)
(*                                                                         *)
(* The driver is the environment: every driver call (pyodbc.connect,       *)
(* Connection.close, Connection.cursor, Cursor.execute, Cursor.fetchall)   *)
(* has an outcome that the actions draw from a bounded set.                *)
(***************************************************************************)
EXTENDS Integers, Sequences, FiniteSets, TLC

\* ------------------------------------------------------------------ bounds
\* Successful pyodbc.connect calls in one run.
MaxHandles == 2
\* Parameter rows entered in the shell.
MaxParams == 2
\* Rows a procedure returns.
MaxRows == 2

\* ------------------------------------------------------- program constants
\* pyodbc.connect(connection_string, timeout=10)
ConnectTimeout == 10
\* st.number_input("Number of Parameters", max_value=20)
MaxNumParams == 20

\* ------------------------------------------------------------ Python values
\* None where the other values are objects (connection, DataFrame, tuple).
None == [kind |-> "None"]
\* None where the other values are strings (username, password).
NoneStr == "<None>"
\* str(x) as an f-string formats it.
Str(x) == IF x = NoneStr THEN "None" ELSE x
\* Truth value of an optional string: None and '' are falsy.
Truthy(s) == s # NoneStr /\ s # ""

\* A pyodbc connection object: the id names the driver handle, and the object
\* keeps the connection string it was opened with.
Connection(id, cs) == [kind |-> "Connection", id |-> id, connection_string |-> cs]
DataFrame(columns, rows) == [kind |-> "DataFrame", columns |-> columns, rows |-> rows]
EmptyDataFrame == DataFrame(<<>>, <<>>)
StatusTuple(success, message) == [kind |-> "tuple", success |-> success, message |-> message]
DriverCall(fn, args) == [fn |-> fn, args |-> args]

\* ------------------------------------------------------------------ inputs
Servers == {"", "srv"}
Databases == {"", "db"}
AuthTypes == {"Windows", "SQL Server"}
Usernames == {"", "sa"}
Passwords == {"", "pw"}
ProcNames == {"", "sp"}
\* What one parameter row can hold, <<name, value>>: a full row, the same name
\* with another value, another name, a name alone, a value alone, nothing.
ParamRows ==
    { <<"a", "1">>, <<"a", "2">>, <<"b", "1">>, <<"a", "">>, <<"", "1">>, <<"", "">> }
Columns == <<"id", "name">>
ResultRow(i) == <<i, "v">>

\* Outcomes of pyodbc.connect.  When it returns, self.connection is rebound;
\* the manager makes no call on the connection it held, and `replaced` is what
\* the driver does with that object once nothing refers to it.
ConnectOutcomes ==
    { [raise |-> "none", text |-> "", replaced |-> d] : d \in {"left open", "closed"} }
    \cup
    { [raise |-> "pyodbc.Error", text |-> "login failed", replaced |-> "kept"],
      [raise |-> "Exception", text |-> "boom", replaced |-> "kept"] }

\* Outcomes of Connection.close.
CloseOutcomes ==
    { [raise |-> "none", text |-> ""],
      [raise |-> "Exception", text |-> "close failed"] }

\* cursor.description of a statement that produced a result set.
Description == [kind |-> "description", columns |-> Columns]
RowLists == { [i \in 1..n |-> ResultRow(i)] : n \in 0..MaxRows }

\* Outcomes of the cursor(), execute(), fetchall() sequence: all succeed, or
\* the call named by `at` raises.  fetchall returns only when the statement
\* produced a result set, and then cursor.description is set.
ExecSuccesses ==
    { [at |-> "none", raise |-> "none", text |-> "", description |-> Description,
       rows |-> r] : r \in RowLists }
\* The procedure ran and produced no result set: cursor.description is None
\* and fetchall raises pyodbc.ProgrammingError, a pyodbc.Error.
NoResultSet ==
    [at |-> "fetchall", raise |-> "pyodbc.Error",
     text |-> "No results.  Previous SQL was not a query.",
     description |-> None, rows |-> <<>>]
ExecFailures ==
    { [at |-> a, raise |-> e, text |-> "bad call", description |-> None, rows |-> <<>>] :
        a \in {"cursor", "execute", "fetchall"}, e \in {"pyodbc.Error", "Exception"} }
    \cup { NoResultSet }
ExecOutcomes == ExecSuccesses \cup ExecFailures

\* ------------------------------------------------------------ Python dicts
\* A dict is the sequence of its <<key, value>> items in insertion order.
DictKeys(d) == { d[i][1] : i \in 1..Len(d) }
DictValues(d) == [i \in 1..Len(d) |-> d[i][2]]
\* d[k] = v: a new key is appended, an existing key keeps its position.
DictSet(d, k, v) ==
    IF k \in DictKeys(d)
    THEN [i \in 1..Len(d) |-> IF d[i][1] = k THEN <<k, v>> ELSE d[i]]
    ELSE Append(d, <<k, v>>)

\* ------------------------------------------------------------------- state
VARIABLES
    db_connection,            \* session_state.db_connection: [connection, is_connected]
    handles,                  \* driver side: the connections pyodbc.connect has returned
    connection_status,        \* session_state.connection_status
    last_result,              \* session_state.last_result
    show_connection_area,     \* session_state.show_connection_area
    stored_connection_info,   \* session_state.stored_connection_info
    password_key,             \* session_state.password_key
    password_widgets,         \* text typed into the widget "password_<key>", per key
    last,                     \* the last call or interaction: inputs, state before, result,
                              \* and whether its script run completed
    hist                      \* the two calls before it: <<older, newer>>, each [op, ok]

vars == << db_connection, handles, connection_status, last_result, show_connection_area,
           stored_connection_info, password_key, password_widgets, last, hist >>

shell_vars == << connection_status, last_result, show_connection_area,
                 stored_connection_info, password_key, password_widgets >>

\* -------------------------------------------------- SQLServerConnection
SQLServerConnection == [connection |-> None, is_connected |-> FALSE]

connection_string(server, database, auth_type, username, password) ==
    IF auth_type = "Windows"
    THEN "DRIVER={ODBC Driver 17 for SQL Server};"
         \o "SERVER=" \o Str(server) \o ";"
         \o "DATABASE=" \o Str(database) \o ";"
         \o "Trusted_Connection=yes;"
    ELSE "DRIVER={ODBC Driver 17 for SQL Server};"
         \o "SERVER=" \o Str(server) \o ";"
         \o "DATABASE=" \o Str(database) \o ";"
         \o "UID=" \o Str(username) \o ";"
         \o "PWD=" \o Str(password) \o ";"

\* self.connection = pyodbc.connect(...): the name is rebound and the handle
\* it referred to is not closed by the manager; the driver may close it when
\* the object is deleted, or leave it open.
Rebound(hs, connection, drv) ==
    IF connection # None /\ drv.replaced = "closed"
    THEN [hs EXCEPT ![connection.id] = "closed"]
    ELSE hs

\* The driver can close on deletion only a handle that is there and open.
Replaceable(self, hs, drv) ==
    drv.replaced = "closed" => (self.connection # None /\ hs[self.connection.id] = "open")

\* connect: the manager after the call, the driver's handles, the returned
\* tuple and the driver calls made.
connect(self, hs, server, database, auth_type, username, password, drv) ==
    LET cs == connection_string(server, database, auth_type, username, password)
        call == DriverCall("pyodbc.connect", <<cs, ConnectTimeout>>)
    IN  IF drv.raise = "none"
        THEN [self |-> [connection |-> Connection(Len(hs) + 1, cs), is_connected |-> TRUE],
              handles |-> Append(Rebound(hs, self.connection, drv), "open"),
              ret |-> <<TRUE, "Connected successfully!">>,
              calls |-> <<call>>]
        ELSE IF drv.raise = "pyodbc.Error"
        THEN [self |-> [self EXCEPT !.is_connected = FALSE],
              handles |-> hs,
              ret |-> <<FALSE, "Connection failed: " \o drv.text>>,
              calls |-> <<call>>]
        ELSE [self |-> [self EXCEPT !.is_connected = FALSE],
              handles |-> hs,
              ret |-> <<FALSE, "Unexpected error: " \o drv.text>>,
              calls |-> <<call>>]

disconnect(self, hs, drv) ==
    IF self.connection # None
    THEN LET call == DriverCall("Connection.close", <<self.connection.id>>)
         IN  IF drv.raise = "none"
             THEN [self |-> [self EXCEPT !.is_connected = FALSE],
                   handles |-> [hs EXCEPT ![self.connection.id] = "closed"],
                   ret |-> <<TRUE, "Disconnected successfully">>,
                   calls |-> <<call>>]
             ELSE [self |-> self,
                   handles |-> hs,
                   ret |-> <<FALSE, "Error disconnecting: " \o drv.text>>,
                   calls |-> <<call>>]
    ELSE [self |-> self, handles |-> hs,
          ret |-> <<TRUE, "No active connection">>, calls |-> <<>>]

\* ', '.join(['?' for _ in parameters])
RECURSIVE param_placeholders(_)
param_placeholders(n) ==
    IF n = 0 THEN ""
    ELSE IF n = 1 THEN "?"
    ELSE param_placeholders(n - 1) \o ", " \o "?"

\* if parameters: None and {} are falsy.
HasParameters(parameters) == parameters # None /\ parameters.items # <<>>

\* The cursor.execute call: with the bound values when there are parameters.
ExecuteCall(procedure_name, parameters) ==
    IF HasParameters(parameters)
    THEN DriverCall("Cursor.execute",
                    << "EXEC " \o procedure_name \o " "
                         \o param_placeholders(Len(parameters.items)),
                       DictValues(parameters.items) >>)
    ELSE DriverCall("Cursor.execute", << "EXEC " \o procedure_name >>)

\* Mutant: the guard tests the connection object alone.
NoActiveConnection_ConnectionOnly(self) == self.connection = None

\* The guard of line 81.
NoActiveConnection(self) == ~self.is_connected \/ self.connection = None

\* if columns and rows
HasData(columns, rows) == columns # <<>> /\ rows # <<>>

execute_stored_procedure(self, hs, procedure_name, parameters, drv) ==
    IF NoActiveConnection(self)
    THEN [self |-> self, handles |-> hs,
          ret |-> <<FALSE, None, "No active database connection">>, calls |-> <<>>]
    ELSE
    LET cursor_call == DriverCall("Connection.cursor", <<self.connection.id>>)
        execute_call == ExecuteCall(procedure_name, parameters)
        fetch_call == DriverCall("Cursor.fetchall", <<>>)
        made == IF drv.at = "cursor" THEN <<cursor_call>>
                ELSE IF drv.at = "execute" THEN <<cursor_call, execute_call>>
                ELSE <<cursor_call, execute_call, fetch_call>>
        columns == IF drv.description # None THEN drv.description.columns ELSE <<>>
        rows == drv.rows
    IN  IF drv.raise = "none"
        THEN IF HasData(columns, rows)
             THEN [self |-> self, handles |-> hs,
                   ret |-> << TRUE, DataFrame(columns, rows),
                              "Procedure executed successfully. " \o ToString(Len(rows))
                                  \o " rows returned." >>,
                   calls |-> made]
             ELSE [self |-> self, handles |-> hs,
                   ret |-> << TRUE, EmptyDataFrame,
                              "Procedure executed successfully. No data returned." >>,
                   calls |-> made]
        ELSE IF drv.raise = "pyodbc.Error"
        THEN [self |-> self, handles |-> hs,
              ret |-> <<FALSE, None, "SQL Error: " \o drv.text>>, calls |-> made]
        ELSE [self |-> self, handles |-> hs,
              ret |-> <<FALSE, None, "Unexpected error: " \o drv.text>>, calls |-> made]

\* ----------------------------------------------------------- session state
InitialConnectionInfo ==
    [server |-> "", database |-> "", auth_type |-> "Windows", username |-> ""]

initialize_session_state ==
    /\ db_connection = SQLServerConnection
    /\ connection_status = None
    /\ last_result = None
    /\ show_connection_area = TRUE
    /\ stored_connection_info = InitialConnectionInfo
    /\ password_key = 0

NoCall == [op |-> "none", ok |-> FALSE]

Init ==
    /\ initialize_session_state
    /\ handles = <<>>
    /\ password_widgets = [k \in 0..MaxHandles |-> ""]
    /\ last = [op |-> "init", args |-> <<>>, drv |-> None, pre |-> None,
               ret |-> <<>>, calls |-> <<>>, run |-> "completed"]
    /\ hist = <<NoCall, NoCall>>

\* The part of the state a call starts from.
Snapshot ==
    [db_connection |-> db_connection,
     connection_status |-> connection_status,
     last_result |-> last_result,
     stored_connection_info |-> stored_connection_info,
     password_key |-> password_key]

\* hist after one more call: the last one joins it, the oldest leaves.
Remember ==
    IF last.op = "init" THEN hist
    ELSE << hist[2], [op |-> last.op, ok |-> last.ret # <<>> /\ last.ret[1]] >>

\* ------------------------------------------- calls on the manager itself
Parameters(items) == [kind |-> "dict", items |-> items]

ConnectArgs(server, database, auth_type, username, password) ==
    [server |-> server, database |-> database, auth_type |-> auth_type,
     username |-> username, password |-> password]

\* Arguments the manager is called with directly: it checks none of them.
ManagerConnectArgs ==
    { ConnectArgs("srv", "db", "Windows", NoneStr, NoneStr),
      ConnectArgs("srv", "db", "SQL Server", "sa", "pw"),
      ConnectArgs("", "db", "SQL Server", NoneStr, NoneStr) }
ManagerParameters ==
    { None, Parameters(<<>>), Parameters(<< <<"a", "1">> >>) }

CallConnect ==
    \E a \in ManagerConnectArgs, drv \in ConnectOutcomes :
        /\ drv.raise = "none" => Len(handles) < MaxHandles
        /\ Replaceable(db_connection, handles, drv)
        /\ \E r \in { connect(db_connection, handles, a.server, a.database, a.auth_type,
                            a.username, a.password, drv) } :
               /\ db_connection' = r.self
               /\ handles' = r.handles
               /\ last' = [op |-> "connect", args |-> a, drv |-> drv, pre |-> Snapshot,
                           ret |-> r.ret, calls |-> r.calls, run |-> "completed"]
        /\ hist' = Remember
        /\ UNCHANGED shell_vars

CallDisconnect ==
    \E drv \in CloseOutcomes :
        /\ \E r \in { disconnect(db_connection, handles, drv) } :
               /\ db_connection' = r.self
               /\ handles' = r.handles
               /\ last' = [op |-> "disconnect", args |-> <<>>, drv |-> drv,
                           pre |-> Snapshot, ret |-> r.ret, calls |-> r.calls, run |-> "completed"]
        /\ hist' = Remember
        /\ UNCHANGED shell_vars

CallExecute ==
    \E procedure_name \in ProcNames, parameters \in ManagerParameters,
       drv \in ExecOutcomes :
        /\ \E r \in { execute_stored_procedure(db_connection, handles, procedure_name,
                                             parameters, drv) } :
               /\ db_connection' = r.self
               /\ handles' = r.handles
               /\ last' = [op |-> "execute_stored_procedure",
                           args |-> [procedure_name |-> procedure_name,
                                     parameters |-> parameters],
                           drv |-> drv, pre |-> Snapshot, ret |-> r.ret, calls |-> r.calls,
                           run |-> "completed"]
        /\ hist' = Remember
        /\ UNCHANGED shell_vars

Next == CallConnect \/ CallDisconnect \/ CallExecute

Spec == Init /\ [][Next]_vars

\* ------------------------------------------------------- render_sidebar
\* if not server or not database
MissingServerOrDatabase(server, database) == ~Truthy(server) \/ ~Truthy(database)

\* Mutant: the password is not checked.
MissingCredentials_UsernameOnly(auth_type, username, password) ==
    auth_type = "SQL Server" /\ ~Truthy(username)

\* elif auth_type == "SQL Server" and (not username or not password)
MissingCredentials(auth_type, username, password) ==
    auth_type = "SQL Server" /\ (~Truthy(username) \/ ~Truthy(password))

\* Mutant: the username is not stored.
StoredConnectionInfo_NoUsername(server, database, auth_type, username) ==
    [server |-> server, database |-> database, auth_type |-> auth_type, username |-> ""]

\* The dict stored after a successful connect.
StoredConnectionInfo(server, database, auth_type, username) ==
    [server |-> server, database |-> database, auth_type |-> auth_type,
     username |-> IF Truthy(username) THEN username ELSE ""]

\* Mutant: the counter is not advanced.
NextPasswordKey_Same(k) == k

\* st.session_state.password_key += 1
NextPasswordKey(k) == k + 1

\* The Connect button; it is rendered only while not connected.  The username
\* and password fields exist only for "SQL Server" authentication, and the
\* password is what the widget "password_<password_key>" holds.
ConnectClicked(servers, databases, auth_types, usernames, passwords, outcomes) ==
    \E server \in servers, database \in databases, auth_type \in auth_types,
       typed_username \in usernames, typed_password \in passwords, drv \in outcomes :
        LET sql == auth_type = "SQL Server"
            username == IF sql THEN typed_username ELSE NoneStr
            password == IF sql THEN typed_password ELSE NoneStr
            a == ConnectArgs(server, database, auth_type, username, password)
        IN
        /\ ~db_connection.is_connected
        /\ ~sql => (typed_username = "" /\ typed_password = "")
        /\ password_widgets' =
               IF sql THEN [password_widgets EXCEPT ![password_key] = typed_password]
               ELSE password_widgets
        /\ hist' = Remember
        /\ UNCHANGED << last_result, show_connection_area >>
        /\ IF MissingServerOrDatabase(server, database)
              \/ MissingCredentials(auth_type, username, password)
           THEN /\ last' = [op |-> "Connect", args |-> a, drv |-> None, pre |-> Snapshot,
                            ret |-> <<>>, calls |-> <<>>, run |-> "completed"]
                /\ UNCHANGED << db_connection, handles, connection_status,
                                stored_connection_info, password_key >>
           ELSE /\ drv.raise = "none" => Len(handles) < MaxHandles
                /\ Replaceable(db_connection, handles, drv)
                /\ \E r \in { connect(db_connection, handles, server, database, auth_type,
                                    username, password, drv) } :
                       /\ db_connection' = r.self
                       /\ handles' = r.handles
                       /\ connection_status' = StatusTuple(r.ret[1], r.ret[2])
                       /\ IF r.ret[1]
                          THEN /\ stored_connection_info' =
                                      StoredConnectionInfo(server, database, auth_type, username)
                               /\ password_key' = NextPasswordKey(password_key)
                          ELSE UNCHANGED << stored_connection_info, password_key >>
                       /\ last' = [op |-> "Connect", args |-> a, drv |-> drv,
                                   pre |-> Snapshot, ret |-> r.ret, calls |-> r.calls,
                                   run |-> "completed"]

\* The Disconnect button; it is rendered while connected, with the settings shown.
DisconnectClicked ==
    \E drv \in CloseOutcomes :
        /\ db_connection.is_connected
        /\ show_connection_area
        /\ \E r \in { disconnect(db_connection, handles, drv) } :
               /\ db_connection' = r.self
               /\ handles' = r.handles
               /\ connection_status' = StatusTuple(FALSE, r.ret[2])
               /\ last' = [op |-> "Disconnect", args |-> <<>>, drv |-> drv,
                           pre |-> Snapshot, ret |-> r.ret, calls |-> r.calls, run |-> "completed"]
        /\ last_result' = None
        /\ hist' = Remember
        /\ UNCHANGED << show_connection_area, stored_connection_info, password_key,
                        password_widgets >>

\* The settings toggle; it is rendered while connected.
ToggleClicked ==
    /\ db_connection.is_connected
    /\ show_connection_area' = ~show_connection_area
    /\ last' = [op |-> "Toggle", args |-> <<>>, drv |-> None, pre |-> Snapshot,
                ret |-> <<>>, calls |-> <<>>, run |-> "completed"]
    /\ hist' = Remember
    /\ UNCHANGED << db_connection, handles, connection_status, last_result,
                    stored_connection_info, password_key, password_widgets >>

\* Mutant: a row with a name is included whatever its value.
RowIncluded_NameOnly(param_name, param_value) == Truthy(param_name)

\* ------------------------------------------- render_procedure_interface
\* if param_name and param_value
RowIncluded(param_name, param_value) == Truthy(param_name) /\ Truthy(param_value)

\* The body of the loop: parameters[param_name] = param_value for a full row.
AddRow(parameters, row) ==
    IF RowIncluded(row[1], row[2]) THEN DictSet(parameters, row[1], row[2]) ELSE parameters

\* for i in range(num_params), from row i on, with the dict built so far.
RECURSIVE BuildParametersFrom(_, _, _)
BuildParametersFrom(parameters, rows, i) ==
    IF i > Len(rows) THEN parameters
    ELSE BuildParametersFrom(AddRow(parameters, rows[i]), rows, i + 1)

\* parameters = {} followed by the loop over the rows.
BuildParameters(rows) == BuildParametersFrom(<<>>, rows, 1)

\* parameters if parameters else None
PassedParameters(items) == IF items # <<>> THEN Parameters(items) ELSE None

\* Mutant: a failed execution leaves the last result in place.
NewLastResult_KeepOld(success, data, old) == IF success THEN data ELSE old

\* if success: last_result = data, else: last_result = None; `old` is what
\* last_result held.
NewLastResult(success, data, old) == IF success THEN data ELSE None

\* How the script run of an Execute click ends once the manager has returned:
\* it completes, or streamlit ends it inside st.success / st.error (a rerun
\* or stop is pending), before the assignment of last_result.
Runs == {"completed", "stopped"}

\* session_state.last_result at the end of the run.
LastResultAfter(run, success, data, old) ==
    IF run = "stopped" THEN old ELSE NewLastResult(success, data, old)

\* The Execute Procedure button; the interface is rendered only while connected.
ExecuteClicked(procedure_names, row_seqs, outcomes) ==
    \E procedure_name \in procedure_names, rows \in row_seqs, drv \in outcomes,
       run \in Runs :
      \E parameters \in { PassedParameters(BuildParameters(rows)) } :
        LET a == [procedure_name |-> procedure_name, rows |-> rows]
        IN
        /\ db_connection.is_connected
        /\ Len(rows) <= MaxNumParams
        /\ hist' = Remember
        /\ UNCHANGED << connection_status, show_connection_area, stored_connection_info,
                        password_key, password_widgets >>
        /\ IF ~Truthy(procedure_name)
           THEN /\ run = "completed"
                /\ last' = [op |-> "Execute", args |-> a, drv |-> None, pre |-> Snapshot,
                            ret |-> <<>>, calls |-> <<>>, run |-> run]
                /\ UNCHANGED << db_connection, handles, last_result >>
           ELSE \E r \in { execute_stored_procedure(db_connection, handles,
                                                  procedure_name, parameters, drv) } :
                    /\ db_connection' = r.self
                    /\ handles' = r.handles
                    /\ last_result' = LastResultAfter(run, r.ret[1], r.ret[2], last_result)
                    /\ last' = [op |-> "Execute", args |-> a, drv |-> drv, pre |-> Snapshot,
                                ret |-> r.ret, calls |-> r.calls, run |-> run]

\* Every list of at most n parameter rows.
RECURSIVE RowSeqs(_)
RowSeqs(n) ==
    IF n = 0 THEN { <<>> }
    ELSE LET shorter == RowSeqs(n - 1)
         IN  shorter \cup
             { Append(s, row) : s \in { t \in shorter : Len(t) = n - 1 },
                                row \in ParamRows }

\* Parameter rows of the shell specification: none, or one full row.
ShellRowSeqs == { <<>>, << <<"a", "1">> >> }
\* Driver outcomes of the shell specification: the statement returns its rows,
\* cursor.execute raises, or the procedure produced no result set.
ShellExecOutcomes ==
    { o \in ExecOutcomes : o.at \in {"none", "execute"} } \cup { NoResultSet }

ShellNext ==
    \/ ConnectClicked(Servers, Databases, AuthTypes, Usernames, Passwords, ConnectOutcomes)
    \/ DisconnectClicked
    \/ ToggleClicked
    \/ ExecuteClicked(ProcNames, ShellRowSeqs, ShellExecOutcomes)

ShellSpec == Init /\ [][ShellNext]_vars

\* The specification of the parameter rows: ShellSpec with its inputs narrowed
\* to what the parameter rows depend on: one connection, every list of rows,
\* a procedure whose result set has no rows.
ZeroRowsOutcome ==
    [at |-> "none", raise |-> "none", text |-> "", description |-> Description,
     rows |-> <<>>]

ParamRowSeqs == RowSeqs(MaxParams)

ParamNext ==
    \/ ConnectClicked({"srv"}, {"db"}, {"Windows"}, {""}, {""}, ConnectOutcomes)
    \/ ExecuteClicked({"sp"}, ParamRowSeqs, {ZeroRowsOutcome})

ParamSpec == Init /\ [][ParamNext]_vars

\* ==================================================================== claims
ConnectedOk == [op |-> "connect", ok |-> TRUE]
DisconnectedOk == [op |-> "disconnect", ok |-> TRUE]
DisconnectFailed == [op |-> "disconnect", ok |-> FALSE]
NoActiveResult == <<FALSE, None, "No active database connection">>
OpenHandles == { i \in 1..Len(handles) : handles[i] = "open" }

\* C1: whenever execute_stored_procedure is called while the manager is not
\* connected, it returns (False, None, "No active database connection") and
\* makes no driver call, whatever the procedure name and the parameters.
C1_NotConnectedExecuteRefused ==
    (last.op = "execute_stored_procedure" /\ ~last.pre.db_connection.is_connected)
        => /\ last.ret = NoActiveResult
           /\ last.calls = <<>>

\* C1 witness: execute was called on a manager that is not connected but
\* still references a connection object.
C1_Witness ==
    /\ last.op = "execute_stored_procedure"
    /\ ~last.pre.db_connection.is_connected
    /\ last.pre.db_connection.connection # None
    /\ last.args.parameters # None

\* C2: a successful connect followed immediately by a successful disconnect
\* leaves the manager not connected, and the disconnect after that returns
\* (True, "No active connection") without a driver call.
C2_SecondDisconnectIsNoOp ==
    /\ (hist[2] = ConnectedOk /\ last.op = "disconnect" /\ last.ret[1])
           => ~db_connection.is_connected
    /\ (hist = <<ConnectedOk, DisconnectedOk>> /\ last.op = "disconnect")
           => /\ last.ret = <<TRUE, "No active connection">>
              /\ last.calls = <<>>

\* C3: when disconnect is called while connected and closing the handle
\* fails, disconnect returns (False, message), the manager drops the handle
\* and is not connected, and an execute_stored_procedure right after it is
\* refused with "No active database connection".
C3_FailedCloseDropsHandle ==
    /\ (last.op = "disconnect" /\ last.pre.db_connection.is_connected
            /\ last.drv.raise # "none")
           => /\ last.ret[1] = FALSE
              /\ db_connection.connection = None
              /\ ~db_connection.is_connected
    /\ (last.op = "execute_stored_procedure" /\ hist[2] = DisconnectFailed)
           => last.ret = NoActiveResult

\* C4: after every call on the manager at most one driver handle is open
\* (opened and not yet closed).
C4_AtMostOneOpenHandle == Cardinality(OpenHandles) <= 1

\* C6: when the manager is connected and the procedure runs and produces no
\* result set, or a result set with zero rows, execute_stored_procedure
\* returns (True, empty DataFrame, "Procedure executed successfully. No data
\* returned.").
C6_NoDataIsSuccess ==
    (/\ last.op = "execute_stored_procedure"
     /\ last.pre.db_connection.is_connected
     /\ last.pre.db_connection.connection # None
     /\ (last.drv = NoResultSet \/ (last.drv.raise = "none" /\ last.drv.rows = <<>>)))
        => last.ret = << TRUE, EmptyDataFrame,
                         "Procedure executed successfully. No data returned." >>

\* A connect input with a required field missing.
MissingRequiredField(a) ==
    \/ a.server = ""
    \/ a.database = ""
    \/ (a.auth_type = "SQL Server" /\ (a.username = "" \/ a.password = ""))

\* The last interaction called the manager.
ManagerCalled == last.ret # <<>>

\* C5: a Connect interaction whose input misses a required field makes no
\* manager call and no driver call, and changes no state: the manager stays
\* not connected, and the stored connection info, the connection status, the
\* password counter and the last result are what they were.
C5_InvalidConnectChangesNothing ==
    (last.op = "Connect" /\ MissingRequiredField(last.args))
        => /\ ~ManagerCalled
           /\ last.calls = <<>>
           /\ ~db_connection.is_connected
           /\ db_connection = last.pre.db_connection
           /\ stored_connection_info = last.pre.stored_connection_info
           /\ connection_status = last.pre.connection_status
           /\ password_key = last.pre.password_key
           /\ last_result = last.pre.last_result

\* C5 witness: a credentialed Connect with server, database and username but
\* no password, after an earlier connection had stored its info.
C5_Witness ==
    /\ last.op = "Connect"
    /\ last.args.server # "" /\ last.args.database # ""
    /\ last.args.auth_type = "SQL Server"
    /\ last.args.username # "" /\ last.args.password = ""
    /\ last.pre.stored_connection_info # InitialConnectionInfo
    /\ last.pre.connection_status # None

StoredInfoIsOf(connection) ==
    \E p \in Passwords \cup {NoneStr} :
        connection.connection_string =
            connection_string(stored_connection_info.server,
                              stored_connection_info.database,
                              stored_connection_info.auth_type,
                              stored_connection_info.username, p)

\* C9 as claimed: in a not-connected state reached by a Disconnect
\* interaction the stored connection info holds no server, database or
\* username.
C9_InfoDiscardedOnDisconnect ==
    (last.op = "Disconnect" /\ ~db_connection.is_connected)
        => /\ stored_connection_info.server = ""
           /\ stored_connection_info.database = ""
           /\ stored_connection_info.username = ""

\* C9 as amended: a Disconnect interaction leaves the stored connection info
\* as it was, and after it the info still holds the server, database,
\* authentication type and username of the connection it closed.
C9_InfoKeptOnDisconnect ==
    (last.op = "Disconnect")
        => /\ stored_connection_info = last.pre.stored_connection_info
           /\ StoredInfoIsOf(last.pre.db_connection.connection)
           /\ stored_connection_info.server # ""
           /\ stored_connection_info.database # ""

\* C9 witness: not connected after a Disconnect of a credentialed connection.
C9_Witness ==
    /\ last.op = "Disconnect"
    /\ ~db_connection.is_connected
    /\ stored_connection_info.auth_type = "SQL Server"
    /\ stored_connection_info.username = "sa"

\* C10: the stored connection info has the four fields server, database,
\* auth_type and username and none holds a password; the password counter
\* goes up by one on a successful Connect and is unchanged by every other
\* interaction; and while connected, and right after a Disconnect, the
\* password widget of the current key and of every later key is empty.
C10_PasswordNeverRetained ==
    /\ DOMAIN stored_connection_info = {"server", "database", "auth_type", "username"}
    /\ \A f \in DOMAIN stored_connection_info :
           stored_connection_info[f] \notin (Passwords \ {""})
    /\ last.op # "init"
           => password_key = last.pre.password_key
                  + (IF last.op = "Connect" /\ ManagerCalled /\ last.ret[1] THEN 1 ELSE 0)
    /\ (db_connection.is_connected \/ last.op = "Disconnect")
           => \A k \in password_key..MaxHandles : password_widgets[k] = ""

\* C10 witness: not connected after the Disconnect of a connection that was
\* opened with a typed password; the widget of the earlier key still holds it.
C10_Witness ==
    /\ last.op = "Disconnect"
    /\ ~db_connection.is_connected
    /\ stored_connection_info.auth_type = "SQL Server"
    /\ password_key >= 1
    /\ password_widgets[password_key - 1] = "pw"
    /\ password_widgets[password_key] = ""

\* A row with both a name and a value.
FullRow(row) == row[1] # "" /\ row[2] # ""
FullRows(rows) == SelectSeq(rows, FullRow)

\* The cursor.execute call that binds `values` to procedure `name`.
ExpectedExecute(name, values) ==
    IF values = <<>>
    THEN DriverCall("Cursor.execute", << "EXEC " \o name >>)
    ELSE DriverCall("Cursor.execute",
                    << "EXEC " \o name \o " " \o param_placeholders(Len(values)), values >>)

\* The indices of the full rows whose name no earlier full row has, and the
\* k-th of them.
FirstOfName(full) ==
    { i \in 1..Len(full) : \A j \in 1..(i - 1) : full[j][1] # full[i][1] }
KthFirst(full, k) ==
    CHOOSE i \in FirstOfName(full) :
        Cardinality({ j \in FirstOfName(full) : j < i }) = k - 1
\* The value of the last full row named `name`.
LastValueOf(full, name) ==
    LET i == CHOOSE i \in 1..Len(full) :
                 /\ full[i][1] = name
                 /\ \A j \in (i + 1)..Len(full) : full[j][1] # name
    IN  full[i][2]
\* One value per distinct name, in the order the names first occur.
ValuesByName(full) ==
    [k \in 1..Cardinality(FirstOfName(full)) |->
        LastValueOf(full, full[KthFirst(full, k)][1])]

\* C8 as claimed: the statement executed binds the values of the rows that
\* have both a name and a value, in row order, with one "?" per such row.
C8_EveryFullRowBound ==
    (last.op = "Execute" /\ ManagerCalled)
        => LET full == FullRows(last.args.rows)
           IN  last.calls[2] =
                   ExpectedExecute(last.args.procedure_name,
                                   [i \in 1..Len(full) |-> full[i][2]])

\* C8 as amended: a row without a name or without a value is left out and
\* raises nothing; the statement executed has one "?" per distinct name among
\* the other rows, in the order the names first occur, each bound to the
\* value of the last row with that name.
C8_OneValuePerName ==
    (last.op = "Execute" /\ last.args.procedure_name # "")
        => /\ ManagerCalled
           /\ last.ret[1]
           /\ Len(last.calls) = 3
           /\ last.calls[2] =
                  ExpectedExecute(last.args.procedure_name,
                                  ValuesByName(FullRows(last.args.rows)))

\* C8 witness: two full rows with one name and two values; the statement
\* binds the value of the second.
C8_Witness ==
    /\ last.op = "Execute" /\ ManagerCalled
    /\ last.args.rows = << <<"a", "1">>, <<"a", "2">> >>
    /\ last.calls[2].args = << "EXEC sp ?", << "2" >> >>
====
